---- MODULE Spec2Model ----
(***************************************************************************)
(* pyobench: the single-run benchmark pipeline (_pipeline.py), the `run`   *)
(* command (__main__.py) and the historical runner (_history.py).          *)
(*                                                                         *)
(* Strings that the code slices, compares or searches (commit ids, refs,   *)
(* category names) are sequences of one-character strings.  A polars       *)
(* DataFrame is the set of its rows (group_by gives no row order); the     *)
(* DuckDB table is a bag of rows, because nothing in BenchmarksSchema      *)
(* forbids two equal rows.  Medians are kept doubled (median2 = 2*median)  *)
(* so that the mean of two middle values stays an integer.                 *)
(***************************************************************************)
EXTENDS Integers, Sequences, FiniteSets, Bags, TLC

\* ------------------------------------------------------------------ bounds
MaxCommits == 2      \* longest commit list handed to run_history
MaxSweeps == 2       \* invocations of run_history over the same disk
MaxBenchs == 3       \* descriptors registered before a pipeline run
Repetitions == 3     \* timed calls per (descriptor, size)

\* --------------------------------------------------------- program constants
ShortLen == 8        \* commit[:8]

\* ------------------------------------------------------------------ strings
Min(a, b) == IF a < b THEN a ELSE b

\* Python s[:n]
Prefix(s, n) == SubSeq(s, 1, Min(n, Len(s)))

None == <<"None">>
Some(x) == <<"Some", x>>
IsSome(o) == o[1] = "Some"
Ok(x) == <<"Ok", x>>
Err(e) == <<"Err", e>>
IsOk(r) == r[1] = "Ok"
IsErr(r) == r[1] = "Err"

RECURSIVE Flatten(_)
Flatten(ss) == IF ss = <<>> THEN <<>> ELSE Head(ss) \o Flatten(Tail(ss))

Range(s) == {s[i] : i \in 1..Len(s)}

\* ------------------------------------------------------------ the registry
\* REGISTERY: an insertion-ordered dict category -> list of descriptors,
\* kept as a sequence of entries with pairwise distinct categories.
CatSer == <<"S","e","r","i","a","l","i","z","a","t","i","o","n">>
CatUser == <<"U","s","e","r","S","e","r","i","a","l","i","z","e","r">>
CatPars == <<"P","a","r","s","i","n","g">>
FilterSer == <<"s","e","r">>
CategoryFilters == {None, FilterSer, CatSer}

Benchmark(cat, name, sizes, callable) ==
    [category |-> cat, name |-> name, sizes |-> sizes, callable |-> callable]

\* dict lookup by key: registry.get_item(cat)
get_item(registry, cat) ==
    IF \E i \in 1..Len(registry) : registry[i].category = cat
    THEN Some((CHOOSE e \in Range(registry) : e.category = cat).benchs)
    ELSE None

\* registry.values().iter().flatten().collect()
values_flatten(registry) ==
    Flatten([i \in 1..Len(registry) |-> registry[i].benchs])

\* then_some giving Some for the empty sequence too
then_some_Always(s) == Some(s)

\* Seq.then_some(): Some(self) when the sequence is non-empty
then_some(s) == IF s = <<>> THEN None ELSE Some(s)

_filter_by_category(registry, category) ==
    IF category = None
    THEN then_some(values_flatten(registry))
    ELSE get_item(registry, category)

\* ------------------------------------------------------ the execution engine
\* collect_raw_timings: one Row (category, name, size, run_idx, time) per
\* descriptor, size and repetition, in that order; the k-th timed call of the
\* run takes clock[k] (cyclically).  A callable that raises is fatal.
Clocks == {<<1>>, <<3, 1, 2, 4>>}
Tick(clock, k) == clock[((k - 1) % Len(clock)) + 1]

RowsOf(b) ==
    Flatten([i \in 1..Len(b.sizes) |->
        [r \in 1..Repetitions |->
            [category |-> b.category, name |-> b.name, size |-> b.sizes[i],
             run_idx |-> r - 1]]])

collect_raw_timings(benchs, clock) ==
    IF \E i \in 1..Len(benchs) : benchs[i].callable = "raises"
    THEN <<"Raise", "benchmark raised">>
    ELSE LET calls == Flatten([i \in 1..Len(benchs) |-> RowsOf(benchs[i])])
         IN  Ok([k \in 1..Len(calls) |->
                 [category |-> calls[k].category, name |-> calls[k].name,
                  size |-> calls[k].size, run_idx |-> calls[k].run_idx,
                  time |-> Tick(clock, k)]])

\* the callables a run over benchs invokes: all of them, or those up to the
\* first that raises
RECURSIVE Executed(_)
Executed(benchs) ==
    IF benchs = <<>> THEN <<>>
    ELSE IF Head(benchs).callable = "raises" THEN <<Head(benchs)>>
    ELSE <<Head(benchs)>> \o Executed(Tail(benchs))

\* -------------------------------------------------------------- the aggregator
RECURSIVE Insert(_, _)
Insert(x, s) ==
    IF s = <<>> THEN <<x>>
    ELSE IF x <= Head(s) THEN <<x>> \o s
    ELSE <<Head(s)>> \o Insert(x, Tail(s))

RECURSIVE Sort(_)
Sort(s) == IF s = <<>> THEN <<>> ELSE Insert(Head(s), Sort(Tail(s)))

\* twice pl.col("time").median()
Median2(times) ==
    LET s == Sort(times)
        n == Len(s)
    IN  IF n % 2 = 1 THEN 2 * s[(n + 1) \div 2]
        ELSE s[n \div 2] + s[n \div 2 + 1]

RECURSIVE SelectTimes(_, _)
SelectTimes(rows, key) ==
    IF rows = <<>> THEN <<>>
    ELSE LET r == Head(rows)
             rest == SelectTimes(Tail(rows), key)
         IN  IF <<r.category, r.name, r.size>> = key
             THEN <<r.time>> \o rest ELSE rest

\* commits: 9-character ids; CommitTime is the %at of the commit
H1 == <<"a","1","b","2","c","3","d","4","e">>
H2 == <<"f","5","a","6","b","7","c","8","d">>
Commits == {H1, H2}
CommitTime(h) == IF h = H1 THEN 1000 ELSE 2000

\* GitInfos.new(): rev-parse HEAD and log -1 --format=%at in the working
\* directory; head is the commit checked out there, None when git fails.
GitInfos_new(head) ==
    IF head = None THEN Err("git")
    ELSE Ok([hash |-> head[2], timestamp |-> CommitTime(head[2])])

\* GitInfos.to_exprs(): two literals, the same for the row of every group
to_exprs(git, key) == [git_hash |-> git.hash, timestamp |-> git.timestamp]

GroupKeys(raw_rows) ==
    {<<raw_rows[i].category, raw_rows[i].name, raw_rows[i].size>> :
        i \in 1..Len(raw_rows)}

\* grouping by category and name alone: the sizes of a benchmark fall into
\* one group, which keeps the first size
_compute_all_stats_NoSize(raw_rows, git) ==
    {LET mine == SelectSeq(raw_rows,
                     LAMBDA r : <<r.category, r.name>> = key)
         lit == to_exprs(git, key)
     IN  [category |-> key[1], name |-> key[2], size |-> mine[1].size,
          git_hash |-> lit.git_hash, timestamp |-> lit.timestamp,
          median2 |-> Median2([k \in 1..Len(mine) |-> mine[k].time]),
          runs |-> Len(mine)]
     : key \in {<<raw_rows[i].category, raw_rows[i].name>> :
                  i \in 1..Len(raw_rows)}}

_compute_all_stats(raw_rows, git) ==
    {LET times == SelectTimes(raw_rows, key)
         lit == to_exprs(git, key)
     IN  [category |-> key[1], name |-> key[2], size |-> key[3],
          git_hash |-> lit.git_hash, timestamp |-> lit.timestamp,
          median2 |-> Median2(times), runs |-> Len(times)]
     : key \in GroupKeys(raw_rows)}

\* env: what the run finds around it. head: the commit checked out in the
\* working directory (None: git fails); clock: the timings; polars: "ok", or
\* "error" when the frame cannot be built or cast (PolarsError).
_try_collect(raw_rows, env) ==
    LET git == GitInfos_new(env.head)
    IN  IF IsErr(git) THEN <<"Raise", "failed to get git hash">>
        ELSE IF env.polars = "error" THEN Err("PolarsError")
        ELSE Ok(_compute_all_stats(raw_rows, git[2]))

\* run_pipeline with an empty frame in place of the failure
run_pipeline_EmptyOnNoMatch(registry, category, env) ==
    LET found == _filter_by_category(registry, category)
    IN  IF ~IsSome(found) THEN Ok({})
        ELSE LET raw == collect_raw_timings(found[2], env.clock)
             IN  IF ~IsOk(raw) THEN raw
                 ELSE LET res == _try_collect(raw[2], env)
                      IN  IF IsOk(res) THEN res
                          ELSE <<"Raise", "Failed to run benchmarks">>

\* run_pipeline on the registry as discovery left it: Ok(frame), or the
\* exception that .expect (or a callee) raises.
run_pipeline(registry, category, env) ==
    LET found == _filter_by_category(registry, category)
    IN  IF ~IsSome(found) THEN <<"Raise", "No benchmarks registered!">>
        ELSE LET raw == collect_raw_timings(found[2], env.clock)
             IN  IF ~IsOk(raw) THEN raw
                 ELSE LET res == _try_collect(raw[2], env)
                      IN  IF IsOk(res) THEN res
                          ELSE <<"Raise", "Failed to run benchmarks">>

\* ------------------------------------------------------------- persistence
\* BenchmarksSchema: the columns of the results table.  No column is declared
\* a primary key, so the set of key columns of the table is empty.
BenchmarksSchema ==
    {"category", "name", "size", "git_hash", "timestamp", "median2", "runs"}
PrimaryKey == {}

KeyOf(row) == [c \in PrimaryKey |-> row[c]]

\* Table.insert_into: append
insert_into(table, frame) == table (+) SetToBag(frame)

\* Table.insert_or_replace: rows of the table that agree with an incoming row
\* on every key column are replaced, all other incoming rows are appended.  A
\* table without key columns has no conflicts.
insert_or_replace(table, rows) ==
    IF PrimaryKey = {} THEN table (+) rows
    ELSE LET keys == {KeyOf(r) : r \in BagToSet(rows)}
             kept == {r \in BagToSet(table) : KeyOf(r) \notin keys}
             new == {CHOOSE r \in BagToSet(rows) : KeyOf(r) = k : k \in keys}
         IN  [r \in kept |-> table[r]] (+) SetToBag(new)

\* Data.temp: the store of temporary partitions, one per write, kept in the
\* order written; scan() yields the rows of all partitions.
temp_write(store, frame) == Append(store, frame)

RECURSIVE temp_scan(_)
temp_scan(store) ==
    IF store = <<>> THEN EmptyBag
    ELSE SetToBag(Head(store)) (+) temp_scan(Tail(store))

\* ------------------------------------------------------------ registration
\* register as an assignment: the descriptor becomes the list of its category
register_Replaces(registry, b) ==
    IF \E i \in 1..Len(registry) : registry[i].category = b.category
    THEN [i \in 1..Len(registry) |->
            IF registry[i].category = b.category
            THEN [registry[i] EXCEPT !.benchs = <<b>>]
            ELSE registry[i]]
    ELSE Append(registry, [category |-> b.category, benchs |-> <<b>>])

\* register: append the descriptor to the list of its category
register(registry, b) ==
    IF \E i \in 1..Len(registry) : registry[i].category = b.category
    THEN [i \in 1..Len(registry) |->
            IF registry[i].category = b.category
            THEN [registry[i] EXCEPT !.benchs = Append(@, b)]
            ELSE registry[i]]
    ELSE Append(registry, [category |-> b.category, benchs |-> <<b>>])

RECURSIVE RegisterAll(_, _)
RegisterAll(registry, bs) ==
    IF bs = <<>> THEN registry
    ELSE RegisterAll(register(registry, Head(bs)), Tail(bs))

\* _discover_benchmarks: importing the files under the path registers their
\* benchmarks into the (fresh) registry of the process
_discover_benchmarks(files) == RegisterAll(<<>>, files)

\* the benchmark files a path can hold
BenchA == Benchmark(CatSer, "f", <<10, 100>>, "ok")
BenchB == Benchmark(CatUser, "g", <<10>>, "ok")
BenchP == Benchmark(CatPars, "h", <<10>>, "ok")
BenchX == Benchmark(CatPars, "x", <<10>>, "raises")
Benchs == {BenchA, BenchB, BenchP, BenchX}
DirAB == <<BenchA, BenchB>>
DirEmpty == <<>>

\* the script with its store overwritten by every write
_BENCH_SCRIPT_Overwrites(registry, category, env, store) ==
    LET out == run_pipeline(registry, category, env)
    IN  IF IsOk(out)
        THEN [exit |-> 0, temp |-> temp_write(<<>>, out[2])]
        ELSE [exit |-> 1, temp |-> store]

\* the script writing what it has before the aggregation error ends it
_BENCH_SCRIPT_WritesThenFails(registry, category, env, store) ==
    LET out == run_pipeline(registry, category, env)
        part == run_pipeline(registry, category, [env EXCEPT !.polars = "ok"])
    IN  IF IsOk(part)
        THEN [exit |-> IF IsOk(out) THEN 0 ELSE 1,
              temp |-> temp_write(store, part[2])]
        ELSE [exit |-> 1, temp |-> store]

\* _BENCH_SCRIPT: the child's program.  The exit code is 0 when the script
\* ran to its end, 1 when an exception ended it.
_BENCH_SCRIPT(registry, category, env, store) ==
    LET out == run_pipeline(registry, category, env)
    IN  IF IsOk(out)
        THEN [exit |-> 0, temp |-> temp_write(store, out[2])]
        ELSE [exit |-> 1, temp |-> store]

\* ================================================================== state
VARIABLES
    REGISTERY,   \* registry of the process running the pipeline
    proc,        \* the pipeline process that ran last: command and outcome
    results,     \* Data.db.results: bag of rows (persistent)
    temp,        \* Data.temp: the temporary partitions (persistent)
    worktrees,   \* worktrees on disk: set of [path, head]
    pc,          \* position of run_history
    commits,     \* run_history's commit list
    bench_path,  \* the benchmark files under bench_path
    category,    \* run_history's category argument
    idx,         \* position in the commit list
    cur,         \* identifier of the current commit, as _resolve returned it
    result,      \* the Result chain of _run_commit so far
    exit,        \* exit code of the current commit's child, -1: none ran
    events,      \* the steps and prints of the current commit, in order
    processed,   \* the commits _run_commit has returned for, in order
    everOk,      \* commits whose child exited with code 0, in any sweep
    sweeps       \* sweeps started so far

vars == <<REGISTERY, proc, results, temp, worktrees, pc, commits,
          bench_path, category, idx, cur, result, exit, events, processed,
          everOk, sweeps>>

pipeVars == <<REGISTERY, proc>>
sweepVars == <<pc, commits, bench_path, category, idx, cur, result, exit,
               events, processed, everOk, sweeps>>

\* references a user can pass, and the commits they name
V1 == <<"v","1">>
V2 == <<"v","2">>
Refs == {V1, V2}
RefCommit(ref) == IF ref = V1 THEN H1 ELSE H2
CommitOf(ident) == IF ident \in Commits THEN ident ELSE RefCommit(ident)

CommitLists ==
    UNION {[1..n -> Refs] : n \in 0..MaxCommits}

SweepDirs == {DirAB}
SweepCategories == {None, CatPars}
SweepClocks == {<<3, 1, 2, 4>>}

\* Data.source().joinpath("worktrees", f"wt_{commit[:8]}")
WtPath(commit) == <<"wt_">> \o Prefix(commit, ShortLen)

OnDisk(path) == \E w \in worktrees : w.path = path

Init ==
    /\ REGISTERY = <<>>
    /\ proc = [cmd |-> "none", phase |-> "none"]
    /\ results = EmptyBag
    /\ temp = <<>>
    /\ worktrees = {}
    /\ pc = "idle"
    /\ commits = <<>>
    /\ bench_path = DirEmpty
    /\ category = None
    /\ idx = 0
    /\ cur = None
    /\ result = None
    /\ exit = -1
    /\ events = <<>>
    /\ processed = <<>>
    /\ everOk = {}
    /\ sweeps = 0

Ev(step, i, ok) == [step |-> step, i |-> i, ok |-> ok]

\* ------------------------------------------------------------ run_history
\* run_history(commits, bench_path, category) is called; the iterator chain
\* is lazy, so each commit is resolved right before it is run.
StartHistory ==
    /\ pc \in {"idle", "done"}
    /\ sweeps < MaxSweeps
    /\ \E cs \in CommitLists, d \in SweepDirs, c \in SweepCategories :
        /\ commits' = cs
        /\ bench_path' = d
        /\ category' = c
        /\ idx' = IF cs = <<>> THEN 0 ELSE 1
        /\ pc' = IF cs = <<>> THEN "merge" ELSE "resolve"
    /\ sweeps' = sweeps + 1
    /\ cur' = None
    /\ result' = None
    /\ exit' = -1
    /\ events' = <<>>
    /\ processed' = <<>>
    /\ UNCHANGED <<pipeVars, results, temp, worktrees, everOk>>

\* Result.unwrap_or
unwrap_or(res, default) == IF IsOk(res) THEN res[2] ELSE default

\* _resolve(ref): git rev-parse ref; when that fails the failure is printed
\* and the reference itself is the result; the commit then goes to _run_commit
ResolveStep(skipUnresolved) ==
    /\ pc = "resolve"
    /\ \E ok \in BOOLEAN :
        LET res == IF ok THEN Ok(CommitOf(commits[idx])) ELSE Err("rev-parse")
        IN  /\ cur' = unwrap_or(res, commits[idx])
            /\ events' = IF ok THEN <<Ev("resolve", idx, TRUE)>>
                          ELSE <<Ev("resolve", idx, FALSE),
                                 Ev("print_unresolved", idx, FALSE)>>
            /\ IF skipUnresolved /\ ~ok
               THEN /\ idx' = idx + 1
                    /\ pc' = IF idx < Len(commits) THEN "resolve" ELSE "merge"
               ELSE /\ idx' = idx
                    /\ pc' = "add"
    /\ result' = None
    /\ exit' = -1
    /\ UNCHANGED <<pipeVars, results, temp, worktrees, commits, bench_path,
                   category, processed, everOk, sweeps>>

Resolve_SkipsUnresolved == ResolveStep(TRUE)

Resolve == ResolveStep(FALSE)

\* the chain of _run_commit: and_then runs the next step only on Ok, and the
\* removal of the worktree follows the chain whatever its result
ChainNext_Continues(step, ok) ==
    CASE step = "add" -> "sync"
      [] step = "sync" -> "child"
      [] step = "child" -> "cleanup"

ChainNext_Raises(step, ok) ==
    IF ~ok THEN "raised"
    ELSE CASE step = "add" -> "sync"
           [] step = "sync" -> "child"
           [] step = "child" -> "cleanup"

ChainNext(step, ok) ==
    IF ~ok THEN "cleanup"
    ELSE CASE step = "add" -> "sync"
           [] step = "sync" -> "child"
           [] step = "child" -> "cleanup"

\* the success line printed whatever the chain's result
Settle_AlwaysOk(evs, step, ok) ==
    IF ChainNext(step, ok) = "cleanup"
    THEN Append(evs, Ev("print_ok", idx, ok))
    ELSE evs

\* the chain settled: .inspect / .inspect_err print the status line
Settle(evs, step, ok) ==
    IF ChainNext(step, ok) = "cleanup"
    THEN Append(evs, Ev(IF ok THEN "print_ok" ELSE "print_err", idx, ok))
    ELSE evs

\* _git(repo, "worktree", "add", "--detach", wt, commit); git refuses a path
\* that exists
WorktreeAdd ==
    /\ pc = "add"
    /\ \E ok \in BOOLEAN :
        /\ ok => ~OnDisk(WtPath(cur))
        /\ worktrees' = IF ok
                        THEN worktrees \cup
                             {[path |-> WtPath(cur), head |-> CommitOf(cur)]}
                        ELSE worktrees
        /\ result' = IF ok THEN Ok("add") ELSE Err("add")
        /\ events' = Settle(Append(events, Ev("add", idx, ok)), "add", ok)
        /\ pc' = ChainNext("add", ok)
    /\ UNCHANGED <<pipeVars, results, temp, commits, bench_path, category,
                   idx, cur, exit, processed, everOk, sweeps>>

\* _sync_worktree(wt): uv sync in the worktree; a nonzero exit of uv is
\* printed by _sync_worktree itself, a missing uv is not
SyncWorktree ==
    /\ pc = "sync"
    /\ \E outcome \in {"ok", "CalledProcessError", "FileNotFoundError"} :
        LET ok == outcome = "ok"
            ran == Append(events, Ev("sync", idx, ok))
            said == IF outcome = "CalledProcessError"
                    THEN Append(ran, Ev("print_sync_failed", idx, FALSE))
                    ELSE ran
        IN  /\ result' = IF IsErr(result) THEN result
                         ELSE IF ok THEN Ok("sync") ELSE Err("sync")
            /\ events' = Settle(said, "sync", ok)
            /\ pc' = ChainNext("sync", ok)
    /\ UNCHANGED <<pipeVars, results, temp, worktrees, commits, bench_path,
                   category, idx, cur, exit, processed, everOk, sweeps>>

\* the commit checked out in the worktree at path (None: no worktree there)
HeadAt(path) ==
    IF OnDisk(path)
    THEN Some((CHOOSE w \in worktrees : w.path = path).head)
    ELSE None

\* the child inserting its frame into the results table as well
RunBenchSubprocess_WritesTable ==
    /\ pc = "child"
    /\ \E spawn \in BOOLEAN, clock \in SweepClocks, polars \in {"ok", "error"} :
        LET env == [head |-> HeadAt(WtPath(cur)), clock |-> clock,
                    polars |-> polars]
            child == IF spawn
                     THEN _BENCH_SCRIPT(_discover_benchmarks(bench_path),
                                        category, env, temp)
                     ELSE [exit |-> 2, temp |-> temp]
            ok == child.exit = 0
        IN  /\ temp' = child.temp
            /\ results' = IF ok
                          THEN insert_into(results, child.temp[Len(child.temp)])
                          ELSE results
            /\ exit' = child.exit
            /\ everOk' = IF ok THEN everOk \cup {CommitOf(cur)} ELSE everOk
            /\ result' = IF IsErr(result) THEN result
                         ELSE IF ok THEN Ok("child") ELSE Err("child")
            /\ events' = Settle(Append(events, Ev("child", idx, ok)),
                                "child", ok)
            /\ pc' = ChainNext("child", ok)
    /\ UNCHANGED <<pipeVars, worktrees, commits, bench_path,
                   category, idx, cur, processed, sweeps>>

\* _run_bench_subprocess: uv run python -c _BENCH_SCRIPT in the worktree, with
\* check=True.  spawn = FALSE: uv is missing or exits with its own code 2
\* before the script starts.
RunBenchSubprocess ==
    /\ pc = "child"
    /\ \E spawn \in BOOLEAN, clock \in SweepClocks, polars \in {"ok", "error"} :
        LET env == [head |-> HeadAt(WtPath(cur)), clock |-> clock,
                    polars |-> polars]
            child == IF spawn
                     THEN _BENCH_SCRIPT(_discover_benchmarks(bench_path),
                                        category, env, temp)
                     ELSE [exit |-> 2, temp |-> temp]
            ok == child.exit = 0
        IN  /\ temp' = child.temp
            /\ exit' = child.exit
            /\ everOk' = IF ok THEN everOk \cup {CommitOf(cur)} ELSE everOk
            /\ result' = IF IsErr(result) THEN result
                         ELSE IF ok THEN Ok("child") ELSE Err("child")
            /\ events' = Settle(Append(events, Ev("child", idx, ok)),
                                "child", ok)
            /\ pc' = ChainNext("child", ok)
    /\ UNCHANGED <<pipeVars, results, worktrees, commits, bench_path,
                   category, idx, cur, processed, sweeps>>

\* _git(repo, "worktree", "remove", "--force", wt), its Result dropped, and
\* _run_commit returns the chain's result
RemoveStep(attempt) ==
    /\ pc = "cleanup"
    /\ \E ok \in BOOLEAN :
        /\ ok => (attempt /\ OnDisk(WtPath(cur)))
        /\ worktrees' = IF ok THEN {w \in worktrees : w.path # WtPath(cur)}
                        ELSE worktrees
        /\ LET outcome == IF ~attempt THEN "skipped"
                          ELSE IF ok THEN "ok" ELSE "failed"
           IN  /\ events' = Append(events, Ev("cleanup", idx, ok))
               /\ processed' = Append(processed,
                      [i |-> idx, ref |-> commits[idx], commit |-> cur,
                       resolved |-> events[1].ok, result |-> result,
                       exit |-> exit, cleanup |-> outcome])
    /\ idx' = idx + 1
    /\ pc' = IF idx < Len(commits) THEN "resolve" ELSE "merge"
    /\ UNCHANGED <<pipeVars, results, temp, commits, bench_path, category,
                   cur, result, exit, everOk, sweeps>>

\* the removal reported as done with the worktree left on disk
WorktreeRemove_KeepsWorktree ==
    /\ pc = "cleanup"
    /\ \E ok \in BOOLEAN :
        /\ ok => OnDisk(WtPath(cur))
        /\ worktrees' = worktrees
        /\ events' = Append(events, Ev("cleanup", idx, ok))
        /\ processed' = Append(processed,
               [i |-> idx, ref |-> commits[idx], commit |-> cur,
                resolved |-> events[1].ok, result |-> result,
                exit |-> exit, cleanup |-> IF ok THEN "ok" ELSE "failed"])
    /\ idx' = idx + 1
    /\ pc' = IF idx < Len(commits) THEN "resolve" ELSE "merge"
    /\ UNCHANGED <<pipeVars, results, temp, commits, bench_path, category,
                   cur, result, exit, everOk, sweeps>>

WorktreeRemove_OnlyAfterOk == RemoveStep(IsOk(result))

WorktreeRemove == RemoveStep(TRUE)

\* _save_results(): every partition of Data.temp goes into the table
SaveResults ==
    /\ pc = "merge"
    /\ results' = insert_or_replace(results, temp_scan(temp))
    /\ events' = <<Ev("merge", 0, TRUE)>>
    /\ pc' = "done"
    /\ UNCHANGED <<pipeVars, temp, worktrees, commits, bench_path, category,
                   idx, cur, result, exit, processed, everOk, sweeps>>

Next ==
    \/ StartHistory
    \/ Resolve
    \/ WorktreeAdd
    \/ SyncWorktree
    \/ RunBenchSubprocess
    \/ WorktreeRemove
    \/ SaveResults

Spec == Init /\ [][Next]_vars

\* each subprocess.run blocks until the command has ended, and the
\* controller then takes its next step
Step ==
    \/ Resolve
    \/ WorktreeAdd
    \/ SyncWorktree
    \/ RunBenchSubprocess
    \/ WorktreeRemove
    \/ SaveResults

LiveSpec == Init /\ [][Next]_vars /\ WF_vars(Step)

\* SIGINT reaches the controller while it waits in subprocess.run for uv sync
\* or for the child: the KeyboardInterrupt is none of the exceptions that
\* _sync_worktree and _run_bench_subprocess catch, and neither _run_commit
\* nor run_history has a try/finally or an except around the chain, so it
\* leaves run_history from where it was raised.
Interrupt ==
    /\ pc \in {"sync", "child"}
    /\ events' = Append(events, Ev("interrupt", idx, FALSE))
    /\ pc' = "interrupted"
    /\ UNCHANGED <<pipeVars, results, temp, worktrees, commits, bench_path,
                   category, idx, cur, result, exit, processed, everOk,
                   sweeps>>

InterruptNext ==
    \/ StartHistory
    \/ Resolve
    \/ WorktreeAdd
    \/ SyncWorktree
    \/ RunBenchSubprocess
    \/ WorktreeRemove
    \/ SaveResults
    \/ Interrupt

\* run_history with interrupts from outside
InterruptSpec == Init /\ [][InterruptNext]_vars

\* ================================================= the pipeline processes
\* the frame an earlier run of the pipeline left in the table
OldFrame ==
    _compute_all_stats(
        collect_raw_timings(<<BenchB>>, <<1>>)[2],
        [hash |-> H2, timestamp |-> CommitTime(H2)])

PipeInit ==
    /\ REGISTERY = <<>>
    /\ proc = [cmd |-> "none", phase |-> "none"]
    /\ results \in {EmptyBag, SetToBag(OldFrame)}
    /\ temp \in {<<>>, <<OldFrame>>}
    /\ worktrees = {}
    /\ pc = "idle"
    /\ commits = <<>>
    /\ bench_path = DirEmpty
    /\ category = None
    /\ idx = 0
    /\ cur = None
    /\ result = None
    /\ exit = -1
    /\ events = <<>>
    /\ processed = <<>>
    /\ everOk = {}
    /\ sweeps = 0

PipeEnvs ==
    [head : {Some(H1), None}, clock : Clocks, polars : {"ok", "error"}]

\* the process starts, its registry empty: `run` from the command line, or
\* the child's script
StartProcess ==
    /\ proc.phase = "none"
    /\ REGISTERY' = <<>>
    /\ \E cmd \in {"run", "child"} :
        proc' = [cmd |-> cmd, phase |-> "discover"]
    /\ UNCHANGED <<results, temp, worktrees, sweepVars>>

\* discovery imports a benchmark file: its @bench registers a descriptor
Register ==
    /\ proc.cmd # "none" /\ proc.phase = "discover"
    /\ Len(values_flatten(REGISTERY)) < MaxBenchs
    /\ \E b \in Benchs : REGISTERY' = register(REGISTERY, b)
    /\ UNCHANGED <<proc, results, temp, worktrees, sweepVars>>

\* what the process leaves behind for inspection
Exited(cmd, cat, dry, env, out) ==
    LET found == _filter_by_category(REGISTERY, cat)
    IN  [cmd |-> cmd, phase |-> "exited", category |-> cat, dry |-> dry,
         env |-> env, found |-> found,
         ran |-> IF IsSome(found) THEN Executed(found[2]) ELSE <<>>,
         out |-> out, exit |-> IF IsOk(out) THEN 0 ELSE 1]

\* `run` persisting the frame with --dry too
RunCmd_IgnoresDry ==
    /\ proc.cmd = "run" /\ proc.phase = "discover"
    /\ \E cat \in CategoryFilters, debug \in BOOLEAN, env \in PipeEnvs :
        LET out == run_pipeline(REGISTERY, cat, env)
        IN  /\ proc' = Exited("run", cat, debug, env, out)
            /\ results' = IF IsOk(out)
                          THEN insert_into(results, out[2])
                          ELSE results
    /\ UNCHANGED <<REGISTERY, temp, worktrees, sweepVars>>

\* `run path [--category c] [--dry]`, after discovery
RunCmd ==
    /\ proc.cmd = "run" /\ proc.phase = "discover"
    /\ \E cat \in CategoryFilters, debug \in BOOLEAN, env \in PipeEnvs :
        LET out == run_pipeline(REGISTERY, cat, env)
        IN  /\ proc' = Exited("run", cat, debug, env, out)
            /\ results' = IF ~debug /\ IsOk(out)
                          THEN insert_into(results, out[2])
                          ELSE results
    /\ UNCHANGED <<REGISTERY, temp, worktrees, sweepVars>>

\* the child's script, after discovery
ChildScript ==
    /\ proc.cmd = "child" /\ proc.phase = "discover"
    /\ \E cat \in CategoryFilters, env \in PipeEnvs :
        LET child == _BENCH_SCRIPT(REGISTERY, cat, env, temp)
        IN  /\ proc' = [Exited("child", cat, FALSE, env,
                               run_pipeline(REGISTERY, cat, env))
                        EXCEPT !.exit = child.exit]
            /\ temp' = child.temp
    /\ UNCHANGED <<REGISTERY, results, worktrees, sweepVars>>

PipeNext ==
    \/ StartProcess
    \/ Register
    \/ RunCmd
    \/ ChildScript

PipelineSpec == PipeInit /\ [][PipeNext]_vars

\* ================================================================= claims
Finished == pc = "done"

\* the last commit of this sweep processed at the worktree path of entry i
LastAt(i) ==
    CHOOSE j \in i..Len(processed) :
        /\ WtPath(processed[j].commit) = WtPath(processed[i].commit)
        /\ \A k \in (j + 1)..Len(processed) :
              WtPath(processed[k].commit) # WtPath(processed[i].commit)

\* C1 as claimed: after run_history has finished a batch, no worktree of a
\* processed commit exists on disk, whatever the outcomes of its steps.
C1_NoWorktreeLeft ==
    Finished =>
        \A i \in 1..Len(processed) : ~OnDisk(WtPath(processed[i].commit))

\* C1 amended: after run_history has finished a batch, a worktree exists at
\* the path of a processed commit only if the `git worktree remove` of the
\* last commit processed at that path failed; the removal was attempted for
\* every processed commit, whatever the outcome of its create, sync and
\* execute steps.
C1_WorktreeLeftOnlyIfRemoveFailed ==
    Finished =>
        \A i \in 1..Len(processed) :
            /\ processed[i].cleanup # "skipped"
            /\ OnDisk(WtPath(processed[i].commit))
                  => processed[LastAt(i)].cleanup = "failed"

\* a batch with a commit whose sync failed after its worktree was created,
\* and whose worktree is gone at the end
C1_Witness ==
    /\ Finished
    /\ \E i \in 1..Len(processed) :
        /\ processed[i].result = Err("sync")
        /\ processed[i].cleanup = "ok"
        /\ ~OnDisk(WtPath(processed[i].commit))

\* every commit of the list, once, in list order
ProcessedInOrder ==
    /\ Len(processed) = Len(commits)
    /\ \A i \in 1..Len(processed) :
        processed[i].i = i /\ processed[i].ref = commits[i]

Failed(p) == IsErr(p.result)

\* C2: a started sweep processes each commit of its list once, in list
\* order, and reaches the merge step and its end, whatever fails on the way.
C2_EveryCommitProcessedThenMerge ==
    /\ [](pc \in {"merge", "done"} => ProcessedInOrder)
    /\ [](pc \notin {"idle", "done"} => <>(pc = "done" /\ ProcessedInOrder))

\* a finished sweep whose first commit failed and whose second succeeded
C2_Witness ==
    /\ Finished
    /\ Len(processed) = 2
    /\ Failed(processed[1])
    /\ processed[2].result = Ok("child")

\* rows that a step adds to the table
Added(before, after) ==
    {r \in BagToSet(after) : CopiesIn(r, after) > CopiesIn(r, before)}

OkThisSweep ==
    {CommitOf(processed[i].commit) :
        i \in {j \in 1..Len(processed) : processed[j].exit = 0}}

MergeStep == pc = "merge" /\ pc' = "done"

RowKey(r) == <<r.category, r.name, r.size, r.git_hash>>

\* C4 as claimed: merging is an upsert keyed by id, so the table never holds
\* two rows with the same (category, name, size, commit), and a second sweep
\* over the same commits leaves the row count as it was.
C4_NoTwoRowsWithSameId ==
    /\ \A r \in BagToSet(results) : CopiesIn(r, results) = 1
    /\ \A r1, r2 \in BagToSet(results) : RowKey(r1) = RowKey(r2) => r1 = r2

\* the (category, name, size) groups a run over the files yields
RECURSIVE KeysOfBenchs(_)
KeysOfBenchs(bs) ==
    IF bs = <<>> THEN {}
    ELSE {<<Head(bs).category, Head(bs).name, Head(bs).sizes[k]>> :
            k \in 1..Len(Head(bs).sizes)} \cup KeysOfBenchs(Tail(bs))

\* the groups of the descriptors the sweep's category selects
SweepGroups ==
    LET found == _filter_by_category(_discover_benchmarks(bench_path), category)
    IN  IF IsSome(found) THEN KeysOfBenchs(found[2]) ELSE {}

StepLogs(i) ==
    {<<Ev("add", i, FALSE), Ev("print_err", i, FALSE)>>,
     <<Ev("add", i, TRUE), Ev("sync", i, FALSE), Ev("print_err", i, FALSE)>>,
     <<Ev("add", i, TRUE), Ev("sync", i, TRUE), Ev("child", i, FALSE),
       Ev("print_err", i, FALSE)>>,
     <<Ev("add", i, TRUE), Ev("sync", i, TRUE), Ev("child", i, TRUE),
       Ev("print_ok", i, TRUE)>>}

IsPrefix(s, t) == Len(s) <= Len(t) /\ s = SubSeq(t, 1, Len(s))

\* the log of a commit, without its resolve and cleanup entries and without
\* the message of _sync_worktree
Chain(evs) ==
    SelectSeq(evs, LAMBDA e :
        e.step \notin {"resolve", "print_unresolved", "print_sync_failed",
                       "cleanup", "merge"})

\* C6: within a commit the steps run in the order create, sync, execute,
\* cleanup; a step runs only after the step before it succeeded, a failed
\* step is followed by the cleanup alone, and the cleanup of a commit is
\* done before the next commit starts.
C6_StepOrder ==
    /\ pc \in {"add", "sync", "child", "cleanup"} =>
        /\ events[1].step = "resolve" /\ events[1].i = idx
        /\ \E log \in StepLogs(idx) :
            /\ IsPrefix(Chain(events), log)
            /\ pc = "cleanup" <=> Chain(events) = log
        /\ \A k \in 1..Len(events) : events[k].step # "cleanup"
    /\ (pc \in {"resolve", "merge"} /\ idx > 1) =>
        /\ events[Len(events)].step = "cleanup"
        /\ events[Len(events)].i = idx - 1
        /\ Chain(events) \in StepLogs(idx - 1)

\* the second commit is about to start: the first one's sync failed, no child
\* ran for it and its cleanup is done
C6_Witness ==
    /\ pc = "resolve" /\ idx = 2
    /\ Chain(events) = <<Ev("add", 1, TRUE), Ev("sync", 1, FALSE),
                         Ev("print_err", 1, FALSE)>>
    /\ events[Len(events)].step = "cleanup"

UpperChars == <<"A","B","C","D","E","F","G","H","I","J","K","L","M",
                "N","O","P","Q","R","S","T","U","V","W","X","Y","Z">>
LowerChars == <<"a","b","c","d","e","f","g","h","i","j","k","l","m",
                "n","o","p","q","r","s","t","u","v","w","x","y","z">>
LowerChar(c) ==
    IF \E i \in 1..26 : UpperChars[i] = c
    THEN LowerChars[CHOOSE i \in 1..26 : UpperChars[i] = c]
    ELSE c
LowerStr(str) == [i \in 1..Len(str) |-> LowerChar(str[i])]
Contains(str, sub) ==
    \E i \in 0..(Len(str) - Len(sub)) : SubSeq(str, i + 1, i + Len(sub)) = sub

\* the descriptors of every category whose name contains the filter, case
\* ignored
SubstringFilter(registry, cat) ==
    then_some(values_flatten(
        SelectSeq(registry,
            LAMBDA e : Contains(LowerStr(e.category), LowerStr(cat)))))

\* C7 as claimed: with a category filter, filter_by_category returns the
\* descriptors of every category whose name contains the filter, case
\* ignored ("ser" selects Serialization and UserSerializer, not Parsing).
C7_SubstringMatch ==
    (proc.phase = "exited" /\ proc.category # None) =>
        proc.found = SubstringFilter(REGISTERY, proc.category)

\* C8: when rev-parse fails for a reference, the failure is printed and the
\* commit is run under the reference itself: the creation of its worktree is
\* attempted and the commit is not skipped.
C8_UnresolvedStillRun ==
    /\ (pc \in {"add", "sync", "child", "cleanup"} /\ ~events[1].ok) =>
        /\ cur = commits[idx]
        /\ events[2] = Ev("print_unresolved", idx, FALSE)
        /\ pc # "add" => events[3].step = "add"
    /\ (pc \in {"resolve", "merge", "done"} /\ commits # <<>>) =>
        Len(processed) = idx - 1
    /\ \A i \in 1..Len(processed) :
        ~processed[i].resolved =>
            /\ processed[i].commit = commits[i]
            /\ processed[i].result # None

\* rev-parse failed for v1 and its worktree was created under the name v1
C8_Witness ==
    /\ pc = "sync"
    /\ ~events[1].ok
    /\ cur = V1
    /\ OnDisk(WtPath(V1))

\* the run cannot succeed: nothing matched, a callable raises, or the
\* aggregation fails
RunFails(p) ==
    \/ ~IsSome(p.found)
    \/ \E i \in 1..Len(p.found[2]) : p.found[2][i].callable = "raises"
    \/ p.env.polars = "error"
    \/ p.env.head = None

ExitStep == proc.phase = "discover" /\ proc'.phase = "exited"

\* C9: a pipeline run that fails writes no rows: the child exits nonzero and
\* leaves the temporary store as it was, exit code 0 means that a partition
\* was written, and a failing `run` leaves the table as it was.
C9_FailedRunWritesNothing ==
    [][ExitStep =>
        /\ proc'.cmd = "child" =>
            /\ RunFails(proc') => proc'.exit # 0
            /\ proc'.exit # 0 => temp' = temp
            /\ proc'.exit = 0 =>
                /\ Len(temp') = Len(temp) + 1
                /\ SubSeq(temp', 1, Len(temp)) = temp
                /\ temp'[Len(temp')] # {}
        /\ (proc'.cmd = "run" /\ RunFails(proc')) =>
            /\ proc'.exit # 0
            /\ results' = results]_vars

\* a child whose aggregation failed on matched benchmarks, exit code 1
C9_Witness ==
    /\ proc.phase = "exited" /\ proc.cmd = "child"
    /\ IsSome(proc.found)
    /\ proc.env.polars = "error"
    /\ proc.exit = 1

GroupOf(r) == <<r.category, r.name, r.size>>

\* C10: the aggregator yields one row per (category, name, size) of the raw
\* rows, runs counts the raw rows of the group, and all rows carry one
\* git_hash and one timestamp; A with sizes [10, 100] and B with [10] give 3
\* rows, each with one run per repetition.
C10_OneRowPerGroup ==
    (proc.phase = "exited" /\ IsOk(proc.out)) =>
        LET frame == proc.out[2]
            raw == collect_raw_timings(proc.found[2], proc.env.clock)[2]
            groups == {GroupOf(raw[i]) : i \in 1..Len(raw)}
        IN  /\ \A g \in groups :
                Cardinality({r \in frame : GroupOf(r) = g}) = 1
            /\ \A r \in frame :
                /\ GroupOf(r) \in groups
                /\ r.runs =
                     Cardinality({i \in 1..Len(raw) : GroupOf(raw[i]) = GroupOf(r)})
            /\ \A r1, r2 \in frame :
                r1.git_hash = r2.git_hash /\ r1.timestamp = r2.timestamp
            /\ proc.found[2] = <<BenchA, BenchB>> =>
                /\ Cardinality(frame) = 3
                /\ \A r \in frame : r.runs = Repetitions

\* the run over A with sizes [10, 100] and B with [10] gave three rows
C10_Witness ==
    /\ proc.phase = "exited" /\ IsOk(proc.out)
    /\ proc.found[2] = <<BenchA, BenchB>>
    /\ {GroupOf(r) : r \in proc.out[2]} =
          {<<CatSer, "f", 10>>, <<CatSer, "f", 100>>, <<CatUser, "g", 10>>}

\* the registry changes while the process is in discovery
RegisterStep ==
    /\ proc.phase = "discover" /\ proc'.phase = "discover"
    /\ REGISTERY' # REGISTERY

\* C11: registering a benchmark appends one descriptor to the list of its
\* category and removes or replaces none: the categories already there keep
\* their place, every list keeps what it had as a prefix, one list (a new
\* one for a new category) gains the descriptor at its end; registering into
\* the empty registry leaves one category, and registering the same category
\* and name again leaves both descriptors, in registration order.
C11_RegisterAppendsOne ==
    [][RegisterStep =>
        \E b \in Benchs :
            /\ get_item(REGISTERY', b.category) =
                  Some(Append(IF IsSome(get_item(REGISTERY, b.category))
                              THEN get_item(REGISTERY, b.category)[2]
                              ELSE <<>>, b))
            /\ Len(REGISTERY') =
                  IF IsSome(get_item(REGISTERY, b.category))
                  THEN Len(REGISTERY) ELSE Len(REGISTERY) + 1
            /\ \A i \in 1..Len(REGISTERY) :
                /\ REGISTERY'[i].category = REGISTERY[i].category
                /\ IsPrefix(REGISTERY[i].benchs, REGISTERY'[i].benchs)
                /\ REGISTERY[i].category # b.category =>
                      REGISTERY'[i].benchs = REGISTERY[i].benchs
            /\ Len(values_flatten(REGISTERY')) =
                  Len(values_flatten(REGISTERY)) + 1
            /\ REGISTERY = <<>> => Len(REGISTERY') = 1]_vars

\* the same category and name registered twice, and then another name in
\* the same category: the list holds all of them in registration order
C11_Witness ==
    /\ proc.phase = "discover"
    /\ \E i \in 1..Len(REGISTERY) :
        REGISTERY[i].benchs = <<BenchP, BenchP, BenchX>>

\* the lists of the categories one after the other, in registry order
RECURSIVE Concatenation(_)
Concatenation(registry) ==
    IF registry = <<>> THEN <<>>
    ELSE Head(registry).benchs \o Concatenation(Tail(registry))

\* the filter names a category that is not a key of the registry
SelectsNothing(registry, cat) ==
    /\ cat # None
    /\ \A i \in 1..Len(registry) : registry[i].category # cat

NoMatch == <<"Raise", "No benchmarks registered!">>

RunExit == ExitStep /\ proc'.cmd = "run"

\* C13: `run --dry` leaves the results table as it was, whatever the
\* pipeline's outcome; without --dry a successful run appends the rows of
\* the run's frame, one copy of each, to the table and takes nothing away,
\* and neither mode touches the temporary store.
C13_DryLeavesTable ==
    [][RunExit =>
        /\ proc'.dry => results' = results
        /\ (~proc'.dry /\ IsOk(proc'.out)) =>
            /\ proc'.out = run_pipeline(REGISTERY, proc'.category, proc'.env)
            /\ \A r \in BagToSet(results) \cup BagToSet(results')
                       \cup proc'.out[2] :
                CopiesIn(r, results') =
                    CopiesIn(r, results) + (IF r \in proc'.out[2] THEN 1 ELSE 0)
        /\ temp' = temp]_vars

\* a successful `run --dry` on an empty table: the table is still empty
C13_Witness ==
    /\ proc.phase = "exited" /\ proc.cmd = "run"
    /\ proc.dry
    /\ IsOk(proc.out) /\ proc.out[2] # {}
    /\ results = EmptyBag

MergeLog == <<Ev("merge", 0, TRUE)>>

\* C14: during a sweep the results table is written by the merge step only:
\* no resolve, worktree creation, sync, child execution or cleanup step
\* changes it.  The merge is taken once per sweep: it is the only step into
\* the end of the sweep, it is taken after every commit of the list has been
\* processed and the cleanup of the last one has been attempted, also when
\* every commit failed, and the only step after it starts another sweep.
C14_OnlyMergeWrites ==
    [][/\ results' # results => MergeStep
       /\ (pc' = "done" /\ pc # "done") => MergeStep
       /\ pc' = "done" <=> events' = MergeLog
       /\ pc = "done" => sweeps' = sweeps + 1
       /\ MergeStep =>
            /\ ProcessedInOrder
            /\ \A i \in 1..Len(processed) : processed[i].cleanup # "skipped"
            /\ commits # <<>> =>
                /\ events[Len(events)].step = "cleanup"
                /\ events[Len(events)].i = Len(commits)
            /\ results' = insert_or_replace(results, temp_scan(temp))]_vars

\* a finished sweep of two commits that both failed: the merge was taken
C14_Witness ==
    /\ Finished
    /\ Len(processed) = 2
    /\ Failed(processed[1]) /\ Failed(processed[2])
    /\ events = MergeLog
    /\ results = EmptyBag

\* C15 as claimed: when the controller is interrupted while a commit is
\* active (its worktree created, sync or child execution in progress), the
\* removal of that commit's worktree has been attempted when the interrupt
\* leaves run_history.
C15_InterruptStillRemoves ==
    (/\ pc = "interrupted"
     /\ \E k \in 1..Len(events) : events[k] = Ev("add", idx, TRUE)) =>
        \E k \in 1..Len(events) :
            events[k].step = "cleanup" /\ events[k].i = idx

\* the Result that the logged chain of a commit ended with
ResultOfLog(log) ==
    LET last == log[Len(log) - 1]
    IN  IF last.ok THEN Ok(last.step) ELSE Err(last.step)

\* a failed removal is followed by a line that reports it
RemoveFailureLogged ==
    \A k \in 1..Len(events) :
        (events[k].step = "cleanup" /\ ~events[k].ok) =>
            \E j \in (k + 1)..Len(events) :
                /\ events[j].step \notin
                      {"resolve", "add", "sync", "child", "cleanup", "merge"}
                /\ events[j].i = events[k].i

\* a failed removal changes nothing of what _run_commit returns, the next
\* commit or the merge follows it, and the sweep ends with all commits
\* processed
RemoveFailureNotPropagated ==
    /\ \A i \in 1..Len(processed) :
        processed[i].cleanup = "failed" =>
            /\ processed[i].result \in
                  {Err("add"), Err("sync"), Err("child"), Ok("child")}
            /\ processed[i].result = Ok("child") <=> processed[i].exit = 0
    /\ (pc \in {"resolve", "merge"} /\ idx > 1
          /\ events[Len(events)] = Ev("cleanup", idx - 1, FALSE)) =>
            /\ processed[idx - 1].cleanup = "failed"
            /\ processed[idx - 1].result = ResultOfLog(Chain(events))
            /\ pc = "merge" <=> idx - 1 = Len(commits)
    /\ Finished => ProcessedInOrder

\* C16 as claimed: when the removal of a commit's worktree fails, the
\* failure is logged and not propagated: _run_commit returns the result of
\* the create/sync/execute chain unchanged, the following commits are still
\* processed and the merge still runs.
C16_RemoveFailureLoggedOnly ==
    RemoveFailureLogged /\ RemoveFailureNotPropagated

\* children spawned for the current commit
Children == {k \in 1..Len(events) : events[k].step = "child"}

\* the current commit has passed the creation of its worktree
Active == pc \in {"sync", "child", "cleanup"}

\* C17 as claimed: at every point of a sweep at most one worktree exists
\* and at most one child runs: the worktree of a commit is created only
\* after the child of the commit before it has exited and the worktree of
\* that commit has been removed.
C17_AtMostOneWorktree ==
    /\ Cardinality(worktrees) <= 1
    /\ Cardinality(Children) <= 1
    /\ (Active /\ idx > 1 /\ result # Err("add")) =>
          \A w \in worktrees : w.path = WtPath(cur)

\* C17 amended: at every point of a sweep at most one child has been
\* spawned for the current commit, and it runs only between the sync and
\* the cleanup of that commit; the controller starts commit i+1 only after
\* the chain of commit i has ended and the removal of its worktree has been
\* attempted.  In a sweep that starts with no worktree on disk, a worktree
\* on disk is that of the current commit or one whose removal failed, so at
\* most one worktree exists as long as no removal has failed.
C17_OneActiveWorktree ==
    /\ Cardinality(Children) <= 1
    /\ Children # {} => pc \in {"cleanup", "resolve", "merge"}
    /\ pc \in {"add", "sync", "child", "cleanup"} =>
        /\ Len(processed) = idx - 1
        /\ \A i \in 1..Len(processed) :
            /\ processed[i].cleanup # "skipped"
            /\ processed[i].result # None
    /\ sweeps = 1 =>
        /\ \A w \in worktrees :
            \/ Active /\ w.path = WtPath(cur)
            \/ \E i \in 1..Len(processed) :
                /\ processed[i].cleanup = "failed"
                /\ WtPath(processed[i].commit) = w.path
        /\ (\A i \in 1..Len(processed) : processed[i].cleanup # "failed")
              => Cardinality(worktrees) <= 1

\* the second commit's child is about to run in its worktree, the first
\* commit's child has exited and its worktree is gone
C17_Witness ==
    /\ sweeps = 1 /\ pc = "child" /\ idx = 2
    /\ processed[1].exit = 0
    /\ processed[1].cleanup = "ok"
    /\ worktrees = {[path |-> WtPath(cur), head |-> CommitOf(cur)]}
    /\ WtPath(processed[1].commit) # WtPath(cur)

\* the status lines of a log: "OK: <commit>" and the failure line
StatusLines(evs) ==
    SelectSeq(evs, LAMBDA e : e.step \in {"print_ok", "print_err"})

\* the steps of the chain that a log holds
ChainSteps(evs) ==
    SelectSeq(evs, LAMBDA e : e.step \in {"add", "sync", "child"})

\* the log is that of a commit whose chain has ended, res its result
OneStatus(evs, res) ==
    LET steps == ChainSteps(evs)
        lines == StatusLines(evs)
        last == steps[Len(steps)]
        allOk == /\ Len(steps) = 3
                 /\ \A k \in 1..3 : steps[k].ok
    IN  /\ Len(lines) = 1
        /\ Len(steps) >= 1
        /\ IsPrefix([k \in 1..Len(steps) |-> steps[k].step],
                    <<"add", "sync", "child">>)
        /\ \A k \in 1..(Len(steps) - 1) : steps[k].ok
        /\ IsOk(res) <=> allOk
        /\ lines[1].step = "print_ok" <=> allOk
        /\ ~allOk =>
            /\ ~last.ok
            /\ res = Err(last.step)
            /\ lines[1].step = "print_err"

\* C18: _run_commit reports one status per commit, and the status matches
\* the outcome: it returns Ok and prints the success line if and only if
\* worktree creation, sync and child execution all succeeded; otherwise it
\* returns the Err of the first step that failed and prints the failure
\* line; no status line is printed before the chain has ended and never
\* both lines are.
C18_OneStatusPerCommit ==
    /\ pc \in {"add", "sync", "child"} => StatusLines(events) = <<>>
    /\ pc = "cleanup" => OneStatus(events, result)
    /\ (pc \in {"resolve", "merge"} /\ idx > 1) =>
        /\ OneStatus(events, processed[idx - 1].result)
        /\ \A k \in 1..Len(events) : events[k].i = idx - 1
    /\ \A i \in 1..Len(processed) :
        /\ processed[i].result \in
              {Ok("child"), Err("add"), Err("sync"), Err("child")}
        /\ processed[i].result = Ok("child") <=> processed[i].exit = 0

\* _run_commit has returned for a commit whose worktree was created and
\* whose uv sync exited nonzero: Err of the sync, and the failure line alone
C18_Witness ==
    /\ pc = "merge" /\ idx = 2
    /\ processed[1].result = Err("sync")
    /\ \E k \in 1..Len(events) : events[k].step = "print_sync_failed"
    /\ StatusLines(events) = <<Ev("print_err", 1, FALSE)>>

====
